---- MODULE Spec2Model ----
(***************************************************************************)
(* Model of src/app.py: the button handler that loads three monthly        *)
(* tables, merges and cleans them, keeps the clients counted exactly three *)
(* times, pivots them into invoice records, renders one workbook per       *)
(* record and packs the output directory into an archive.                  *)
(*                                                                         *)
(* Text (client names, advisor names, raw cell contents) is a sequence of  *)
(* one-character strings so that replace, strip and numeric parsing are    *)
(* computed and not assumed.  Numbers are integers counting thousandths.   *)
(* A missing pivot cell (NaN) is the empty set, a present one a singleton. *)
(***************************************************************************)
EXTENDS Integers, Sequences, FiniteSets, TLC

VARIABLES
    files,            \* the three uploaded tables, in upload order (input)
    labels,           \* P1_LABEL, P2_LABEL, P3_LABEL (input)
    pc,               \* position of the handler
    loadIdx,          \* loop index of "for item in files_config"
    dfs,              \* frames appended so far
    loadOk,           \* history: which reads succeeded
    all_data,         \* merged, cleaned long table
    hasClientCol,     \* 'Client' in all_data.columns
    df_exact_3,       \* rows of clients counted exactly three times
    missing_details,  \* exclusion report rows
    df_wide,          \* returned invoice records
    errors,           \* st.error / st.warning messages, in order
    idx,              \* loop index of generate_invoices_streamlit
    outcome,          \* history: per record, whether load/fill/save succeeded
    generated_files,  \* returned list of generate_invoices_streamlit
    xlsx_dir,         \* files in <tmp>/XLSX: set of [path, from]
    zip               \* archive: [built, members]

vars == <<files, labels, pc, loadIdx, dfs, loadOk, all_data, hasClientCol,
          df_exact_3, missing_details, df_wide, errors, idx, outcome,
          generated_files, xlsx_dir, zip>>

----------------------------------------------------------------------------
(* Bounds and configured values *)

\* most rows the three tables of the structural specification hold together
MaxRecords == 4

\* all_data['count'] == 3
RequiredCount == 3

DefaultLabels == <<"Jul 2025", "Aug 2025", "Sep 2025">>

EVALUATION_PERIOD == "07/01/2025 - 09/30/2025"

Periods == 1..3

----------------------------------------------------------------------------
(* Text *)

\* the characters the model's texts use, in code-point order
Alphabet == <<"$", "+", ",", "-", ".", "/",
              "0", "1", "2", "3", "4", "5", "6", "7", "8", "9",
              "A", "B", "C", "F", "U", "\\", "_",
              "a", "b", "c", "d", "e", "i", "l", "m", "n", "o", "r", "s",
              "t", "v">>

CharCode(c) == CHOOSE i \in 1..Len(Alphabet) : Alphabet[i] = c

\* Python's str < str: first differing character decides, a prefix is smaller
RECURSIVE StrLess(_, _)
StrLess(s, t) ==
    IF t = <<>> THEN FALSE
    ELSE IF s = <<>> THEN TRUE
    ELSE IF Head(s) = Head(t) THEN StrLess(Tail(s), Tail(t))
    ELSE CharCode(Head(s)) < CharCode(Head(t))

\* a missing text cell
NaN == <<>>

Digits == <<"0", "1", "2", "3", "4", "5", "6", "7", "8", "9">>

IsDigit(c) == \E i \in 1..10 : Digits[i] = c

DigitVal(c) == (CHOOSE i \in 1..10 : Digits[i] = c) - 1

RECURSIVE DigitsValue(_)
DigitsValue(s) ==
    IF s = <<>> THEN 0
    ELSE 10 * DigitsValue(SubSeq(s, 1, Len(s) - 1)) + DigitVal(s[Len(s)])

AllDigits(s) == \A i \in 1..Len(s) : IsDigit(s[i])

----------------------------------------------------------------------------
(* Currency cleaning: lines 110-115 and 197-199 *)

\* .astype(str): an empty cell reads as NaN and prints as "nan"
AsStr(cell) == IF cell = NaN THEN <<"n", "a", "n">> ELSE cell

\* .str.replace(r'[$,]', '', regex=True)
StripCurrency(s) == SelectSeq(s, LAMBDA c : c \notin {"$", ","})

\* first three fraction digits, as thousandths
FracMills(fp) == DigitsValue(SubSeq(fp \o <<"0", "0", "0">>, 1, 3))

\* pd.to_numeric(errors='coerce') on one text: {} for NaN, {v} for a number.
\* Accepted: an optional sign, digits with at most one decimal point.
ToNumeric(s) ==
    LET signed == Len(s) > 0 /\ s[1] \in {"-", "+"}
        neg    == Len(s) > 0 /\ s[1] = "-"
        body   == IF signed THEN Tail(s) ELSE s
        dots   == {i \in 1..Len(body) : body[i] = "."}
        d      == IF dots = {} THEN Len(body) + 1 ELSE CHOOSE i \in dots : TRUE
        ip     == SubSeq(body, 1, d - 1)
        fp     == SubSeq(body, d + 1, Len(body))
        valid  == /\ Cardinality(dots) <= 1
                  /\ AllDigits(ip)
                  /\ AllDigits(fp)
                  /\ Len(ip) + Len(fp) >= 1
        mag    == DigitsValue(ip) * 1000 + FracMills(fp)
    IN  IF ~valid THEN {} ELSE IF neg THEN {0 - mag} ELSE {mag}

\* .fillna(0)
FillNa(opt) == IF opt = {} THEN 0 ELSE CHOOSE v \in opt : TRUE

\* the column cleaning of one cell
CleanCell(cell) == FillNa(ToNumeric(StripCurrency(AsStr(cell))))

\* .round(2), half to even, on thousandths
Round2(m) ==
    LET q == m \div 10
        r == m % 10
    IN  IF r < 5 THEN q * 10
        ELSE IF r > 5 THEN (q + 1) * 10
        ELSE IF q % 2 = 0 THEN q * 10
        ELSE (q + 1) * 10

----------------------------------------------------------------------------
(* load_and_clean: lines 74-91 *)

AdvisorHeader == <<"A", "d", "v", "i", "s", "o", "r">>

\* rows kept by the Advisor filter, stamped with the period label; src is a
\* history field recording the table the row came from
LoadAndClean(file, label, i) ==
    LET kept == SelectSeq(file, LAMBDA r : r.Advisor # NaN /\ r.Advisor # AdvisorHeader)
    IN  [j \in 1..Len(kept) |->
            [Client |-> kept[j].Client, Advisor |-> kept[j].Advisor,
             UID |-> kept[j].UID, Fee |-> kept[j].Fee, ADB |-> kept[j].ADB,
             Days |-> kept[j].Days, Date |-> label, src |-> i]]

----------------------------------------------------------------------------
(* merge and clean: lines 102-115 *)

RECURSIVE Concat(_)
Concat(frames) ==
    IF frames = <<>> THEN <<>> ELSE Head(frames) \o Concat(Tail(frames))

\* header texts the identity column of the tables may carry ("" = blank)
IndexHeaders == {"", "Client", "Account"}

\* name of the column reset_index() makes of the index: the tables' common
\* header, or 'index' when it is blank or a failed read put an unnamed
\* empty frame among dfs; 'index' is then renamed to 'Client'
IdentityColumn(header) ==
    LET name == IF \A i \in Periods : loadOk[i] THEN header ELSE ""
        col  == IF name = "" THEN "index" ELSE name
    IN  IF col = "index" THEN "Client" ELSE col

CleanRow(r) == [r EXCEPT !.Fee = CleanCell(r.Fee), !.ADB = CleanCell(r.ADB)]

MergeAndClean(frames) ==
    LET merged == Concat(frames)
    IN  [j \in 1..Len(merged) |-> CleanRow(merged[j])]

----------------------------------------------------------------------------
(* completeness filter and exclusion report: lines 123-158 *)

\* groupby('Client')['Client'].transform('count')
ClientCount(data, c) == Cardinality({j \in 1..Len(data) : data[j].Client = c})

Exact3(data) ==
    SelectSeq(data, LAMBDA r : ClientCount(data, r.Client) = RequiredCount)

Others(data) ==
    SelectSeq(data, LAMBDA r : ClientCount(data, r.Client) # RequiredCount)

\* .unique(): values in order of first appearance
RECURSIVE Unique(_)
Unique(s) ==
    IF s = <<>> THEN <<>>
    ELSE LET init == Unique(SubSeq(s, 1, Len(s) - 1))
             last == s[Len(s)]
         IN  IF \E j \in 1..Len(init) : init[j] = last THEN init
             ELSE Append(init, last)

\* {item['label'] for item in files_config if item['label']}
ExpectedMonths == {labels[i] : i \in Periods} \ {""}

PresentMonths(others, c) ==
    {others[j].Date : j \in {k \in 1..Len(others) : others[k].Client = c}}

\* the difference taken the wrong way round
MissingMonthsReversed(others, c) == PresentMonths(others, c) \ ExpectedMonths

MissingMonths(others, c) == ExpectedMonths \ PresentMonths(others, c)

MissingDetails(others) ==
    LET excluded == Unique([j \in 1..Len(others) |-> others[j].Client])
    IN  [j \in 1..Len(excluded) |->
            [Client  |-> excluded[j],
             Missing |-> MissingMonths(others, excluded[j]),
             Found   |-> PresentMonths(others, excluded[j])]]

----------------------------------------------------------------------------
(* pivot and total: lines 165-207 *)

\* groupby('Client').cumcount() + 1
PeriodId(exact, j) ==
    Cardinality({k \in 1..j : exact[k].Client = exact[j].Client})

\* fixed_cols = ['Client', 'Advisor', 'Unique Client ID']
FixedKey(r) == <<r.Client, r.Advisor, r.UID>>

KeyLess(a, b) ==
    \/ StrLess(a[1], b[1])
    \/ a[1] = b[1] /\ StrLess(a[2], b[2])
    \/ a[1] = b[1] /\ a[2] = b[2] /\ StrLess(a[3], b[3])

\* the pivot's index is sorted
RECURSIVE SortKeys(_)
SortKeys(S) ==
    IF S = {} THEN <<>>
    ELSE LET m == CHOOSE x \in S : \A y \in S \ {x} : KeyLess(x, y)
         IN  <<m>> \o SortKeys(S \ {m})

\* rows of exact that fall in the pivot cell (key, k)
PivotHits(exact, key, k) ==
    {j \in 1..Len(exact) : FixedKey(exact[j]) = key /\ PeriodId(exact, j) = k}

\* one row per distinct fixed_cols tuple; a cell no row falls in is NaN.
\* Fee is refilled with 0 (lines 197-199), Total is line 202, Eval line 205.
WideRow(exact, key) ==
    LET hit(k) == PivotHits(exact, key, k)
        fee    == [k \in Periods |-> FillNa({exact[j].Fee : j \in hit(k)})]
    IN  [Client  |-> key[1], Advisor |-> key[2], UID |-> key[3],
         ADB     |-> [k \in Periods |-> {exact[j].ADB : j \in hit(k)}],
         Days    |-> [k \in Periods |-> {exact[j].Days : j \in hit(k)}],
         Fee     |-> fee,
         Date    |-> [k \in Periods |-> {exact[j].Date : j \in hit(k)}],
         src     |-> [k \in Periods |-> {exact[j].src : j \in hit(k)}],
         Total   |-> Round2(fee[1] + fee[2] + fee[3]),
         Eval    |-> EVALUATION_PERIOD]

PivotAndTotal(exact) ==
    LET keys == SortKeys({FixedKey(exact[j]) : j \in 1..Len(exact)})
    IN  [j \in 1..Len(keys) |-> WideRow(exact, keys[j])]

----------------------------------------------------------------------------
(* generate_invoices_streamlit and make_zip: lines 209-306 *)

\* str(Client).replace("/", "_").replace("\\", "_")
SafeClientName(client) ==
    [j \in 1..Len(client) |-> IF client[j] \in {"/", "\\"} THEN "_" ELSE client[j]]

\* xlsx_dir / f"CF_invoice_{safe_client_name}.xlsx"
OutputPath(client) == <<"XLSX/", "CF_invoice_">> \o SafeClientName(client) \o <<".xlsx">>

\* wb.save(output_path): the file at that path now holds record j's workbook
SaveWorkbook(dir, path, j) ==
    {f \in dir : f.path # path} \cup {[path |-> path, from |-> j]}

\* zipf.write(file, arcname=folder/name) for every file of the folder
ZipMembers(dir) == {f.path : f \in dir}

\* a test that a frame was returned at all, true of every frame
IsEmptyNever(df) == FALSE

\* df_result.empty
IsEmpty(df) == Len(df) = 0

NoArchive == [built |-> FALSE, members |-> {}]

Message(kind, period, client, n) ==
    [kind |-> kind, period |-> period, client |-> client, n |-> n]

----------------------------------------------------------------------------
(* Inputs *)

Acme == <<"A", "c", "m", "e">>
Beta == <<"B", "e", "t", "a">>
SlashName == <<"A", "/", "B">>
UnderscoreName == <<"A", "_", "B">>

Adv1 == <<"A", "d", "v", "1">>
Adv2 == <<"A", "d", "v", "2">>
UID1 == <<"U", "C", "1">>

Fee100 == <<"1", "0", "0", ".", "0", "0">>
Fee150 == <<"1", "5", "0", ".", "5", "0">>
FeeDollar200 == <<"$", "2", "0", "0">>
Balance1234 == <<"$", "1", ",", "2", "3", "4", ".", "5", "6">>

\* raw contents of a Fee or Average Daily Balance cell: plain, currency
\* formatted, three decimals, signed, stray text, empty
RawCells == {Fee100, Fee150, FeeDollar200, Balance1234,
             <<"0", ".", "1", "2", "5">>, <<"-", "5">>, <<"a", "b", "c">>, NaN}

Row(client, advisor, fee, adb) ==
    [Client |-> client, Advisor |-> advisor, UID |-> UID1,
     Fee |-> fee, ADB |-> adb, Days |-> 31]

\* a repeated header line inside the data
HeaderRow == Row(<<"C", "l", "i", "e", "n", "t">>, AdvisorHeader,
                 <<"F", "e", "e">>, <<"A", "D", "B">>)

SampleRows == {Row(Acme, Adv1, Fee100, Balance1234),
               Row(Acme, Adv2, Fee150, Balance1234),
               Row(Beta, Adv1, FeeDollar200, Balance1234),
               HeaderRow}

\* one row per listed client that is in the set present, in list order
RowsOf(present, order) ==
    LET kept == SelectSeq(order, LAMBDA c : c \in present)
    IN  [j \in 1..Len(kept) |-> Row(kept[j], Adv1, Fee100, Balance1234)]

\* tables in which each listed client has one row or none
PresenceTables(order) ==
    LET names == {order[j] : j \in 1..Len(order)}
    IN  {<<RowsOf(a, order), RowsOf(b, order), RowsOf(c, order)>> :
            a \in SUBSET names, b \in SUBSET names, c \in SUBSET names}

LabelValues == {"", "Jul 2025", "Aug 2025", "Sep 2025"}

InitRun ==
    /\ pc = "start"
    /\ loadIdx = 1
    /\ dfs = <<>>
    /\ loadOk = <<>>
    /\ all_data = <<>>
    /\ hasClientCol = FALSE
    /\ df_exact_3 = <<>>
    /\ missing_details = <<>>
    /\ df_wide = <<>>
    /\ errors = <<>>
    /\ idx = 1
    /\ outcome = <<>>
    /\ generated_files = <<>>
    /\ xlsx_dir = {}
    /\ zip = NoArchive

\* structural inputs: at most MaxRecords rows over the three tables
Init ==
    /\ \E n1 \in 0..MaxRecords : \E n2 \in 0..(MaxRecords - n1) :
       \E n3 \in 0..(MaxRecords - n1 - n2) :
           files \in [1..n1 -> SampleRows] \X [1..n2 -> SampleRows]
                        \X [1..n3 -> SampleRows]
    /\ labels = DefaultLabels
    /\ InitRun

\* client names that need replacing in file names
InitNames ==
    /\ files \in PresenceTables(<<SlashName, UnderscoreName, Acme>>)
    /\ labels = DefaultLabels
    /\ InitRun

\* free-form period labels, repeated and empty ones included
InitLabels ==
    /\ files \in PresenceTables(<<Acme, Beta>>)
    /\ labels \in [Periods -> LabelValues]
    /\ InitRun

\* one client in all three tables, arbitrary cell contents
InitCells ==
    /\ files \in {<<<<Row(Acme, Adv1, f1, b1)>>,
                    <<Row(Acme, a2, f2, Balance1234)>>,
                    <<Row(Acme, Adv1, f3, Balance1234)>>>> :
                     f1 \in RawCells, b1 \in RawCells, a2 \in {Adv1, Adv2},
                     f2 \in RawCells, f3 \in RawCells}
    /\ labels = DefaultLabels
    /\ InitRun

----------------------------------------------------------------------------
(* The button handler: lines 325-385 *)

Report(kind, period, client, n) ==
    errors' = Append(errors, Message(kind, period, client, n))

\* line 327: some upload is missing
StartMissing ==
    /\ pc = "start"
    /\ Report("missing_upload", "", NaN, 0)
    /\ pc' = "done"
    /\ UNCHANGED <<files, labels, loadIdx, dfs, loadOk, all_data, hasClientCol,
                   df_exact_3, missing_details, df_wide, idx, outcome,
                   generated_files, xlsx_dir, zip>>

\* lines 329-348: all uploads present, process_data_streamlit is entered
StartOk ==
    /\ pc = "start"
    /\ pc' = "load"
    /\ UNCHANGED <<files, labels, loadIdx, dfs, loadOk, all_data, hasClientCol,
                   df_exact_3, missing_details, df_wide, errors, idx, outcome,
                   generated_files, xlsx_dir, zip>>

\* lines 94-96 with load_and_clean returning the frame (lines 77-88)
LoadOk ==
    /\ pc = "load"
    /\ loadIdx <= 3
    /\ dfs' = Append(dfs, LoadAndClean(files[loadIdx], labels[loadIdx], loadIdx))
    /\ loadOk' = Append(loadOk, TRUE)
    /\ loadIdx' = loadIdx + 1
    /\ UNCHANGED <<files, labels, pc, all_data, hasClientCol, df_exact_3,
                   missing_details, df_wide, errors, idx, outcome,
                   generated_files, xlsx_dir, zip>>

\* a failed read that also discards the frames read before it
LoadFailDropsLoaded ==
    /\ pc = "load"
    /\ loadIdx <= 3
    /\ Report("load_error", labels[loadIdx], NaN, 0)
    /\ dfs' = [j \in 1..(Len(dfs) + 1) |-> <<>>]
    /\ loadOk' = Append(loadOk, FALSE)
    /\ loadIdx' = loadIdx + 1
    /\ UNCHANGED <<files, labels, pc, all_data, hasClientCol, df_exact_3,
                   missing_details, df_wide, idx, outcome,
                   generated_files, xlsx_dir, zip>>

\* lines 94-96 with load_and_clean catching an exception (lines 89-91)
LoadFail ==
    /\ pc = "load"
    /\ loadIdx <= 3
    /\ Report("load_error", labels[loadIdx], NaN, 0)
    /\ dfs' = Append(dfs, <<>>)
    /\ loadOk' = Append(loadOk, FALSE)
    /\ loadIdx' = loadIdx + 1
    /\ UNCHANGED <<files, labels, pc, all_data, hasClientCol, df_exact_3,
                   missing_details, df_wide, idx, outcome,
                   generated_files, xlsx_dir, zip>>

\* lines 102-115
MergeClean ==
    /\ pc = "load"
    /\ loadIdx > 3
    /\ \E header \in IndexHeaders :
           hasClientCol' = (IdentityColumn(header) = "Client")
    /\ all_data' = MergeAndClean(dfs)
    /\ pc' = "validate"
    /\ UNCHANGED <<files, labels, loadIdx, dfs, loadOk, df_exact_3,
                   missing_details, df_wide, errors, idx, outcome,
                   generated_files, xlsx_dir, zip>>

\* lines 118-121
NoClientColumn ==
    /\ pc = "validate"
    /\ ~hasClientCol
    /\ Report("no_client_column", "", NaN, 0)
    /\ df_wide' = <<>>
    /\ pc' = "main"
    /\ UNCHANGED <<files, labels, loadIdx, dfs, loadOk, all_data, hasClientCol,
                   df_exact_3, missing_details, idx, outcome,
                   generated_files, xlsx_dir, zip>>

\* lines 123-158
Validate ==
    /\ pc = "validate"
    /\ hasClientCol
    /\ df_exact_3' = Exact3(all_data)
    /\ missing_details' = MissingDetails(Others(all_data))
    /\ IF Others(all_data) # <<>>
       THEN Report("excluded", "", NaN, Len(MissingDetails(Others(all_data))))
       ELSE errors' = errors
    /\ pc' = "pivot"
    /\ UNCHANGED <<files, labels, loadIdx, dfs, loadOk, all_data, hasClientCol,
                   df_wide, idx, outcome, generated_files, xlsx_dir, zip>>

\* lines 161-163
ZeroAdmitted ==
    /\ pc = "pivot"
    /\ IsEmpty(df_exact_3)
    /\ Report("zero_admitted", "", NaN, 0)
    /\ df_wide' = <<>>
    /\ pc' = "main"
    /\ UNCHANGED <<files, labels, loadIdx, dfs, loadOk, all_data, hasClientCol,
                   df_exact_3, missing_details, idx, outcome,
                   generated_files, xlsx_dir, zip>>

\* lines 165-207
PivotAggregate ==
    /\ pc = "pivot"
    /\ ~IsEmpty(df_exact_3)
    /\ df_wide' = PivotAndTotal(df_exact_3)
    /\ pc' = "main"
    /\ UNCHANGED <<files, labels, loadIdx, dfs, loadOk, all_data, hasClientCol,
                   df_exact_3, missing_details, errors, idx, outcome,
                   generated_files, xlsx_dir, zip>>

\* lines 350, 384-385
EmptyResult ==
    /\ pc = "main"
    /\ IsEmpty(df_wide)
    /\ Report("no_data", "", NaN, 0)
    /\ pc' = "done"
    /\ UNCHANGED <<files, labels, loadIdx, dfs, loadOk, all_data, hasClientCol,
                   df_exact_3, missing_details, df_wide, idx, outcome,
                   generated_files, xlsx_dir, zip>>

\* lines 350-363 and 211-219
BeginRender ==
    /\ pc = "main"
    /\ ~IsEmpty(df_wide)
    /\ idx' = 1
    /\ pc' = "render"
    /\ UNCHANGED <<files, labels, loadIdx, dfs, loadOk, all_data, hasClientCol,
                   df_exact_3, missing_details, df_wide, errors, outcome,
                   generated_files, xlsx_dir, zip>>

\* lines 221-289, 293: the workbook is filled and saved
RenderOk ==
    /\ pc = "render"
    /\ idx <= Len(df_wide)
    /\ xlsx_dir' = SaveWorkbook(xlsx_dir, OutputPath(df_wide[idx].Client), idx)
    /\ generated_files' = Append(generated_files, OutputPath(df_wide[idx].Client))
    /\ outcome' = Append(outcome, TRUE)
    /\ idx' = idx + 1
    /\ UNCHANGED <<files, labels, pc, loadIdx, dfs, loadOk, all_data,
                   hasClientCol, df_exact_3, missing_details, df_wide, errors,
                   zip>>

\* a render failure that leaves the loop
RenderFailAborts ==
    /\ pc = "render"
    /\ idx <= Len(df_wide)
    /\ Report("render_error", "", df_wide[idx].Client, 0)
    /\ outcome' = Append(outcome, FALSE)
    /\ idx' = Len(df_wide) + 1
    /\ UNCHANGED <<files, labels, pc, loadIdx, dfs, loadOk, all_data,
                   hasClientCol, df_exact_3, missing_details, df_wide,
                   generated_files, xlsx_dir, zip>>

\* lines 221-287, 290-293: loading, filling or saving raised
RenderFail ==
    /\ pc = "render"
    /\ idx <= Len(df_wide)
    /\ Report("render_error", "", df_wide[idx].Client, 0)
    /\ outcome' = Append(outcome, FALSE)
    /\ idx' = idx + 1
    /\ UNCHANGED <<files, labels, pc, loadIdx, dfs, loadOk, all_data,
                   hasClientCol, df_exact_3, missing_details, df_wide,
                   generated_files, xlsx_dir, zip>>

\* lines 295, 365-383 with make_zip (lines 297-306)
MakeZip ==
    /\ pc = "render"
    /\ idx > Len(df_wide)
    /\ zip' = [built |-> TRUE, members |-> ZipMembers(xlsx_dir)]
    /\ pc' = "done"
    /\ UNCHANGED <<files, labels, loadIdx, dfs, loadOk, all_data, hasClientCol,
                   df_exact_3, missing_details, df_wide, errors, idx, outcome,
                   generated_files, xlsx_dir>>

Next ==
    \/ StartMissing
    \/ StartOk
    \/ LoadOk
    \/ LoadFail
    \/ MergeClean
    \/ NoClientColumn
    \/ Validate
    \/ ZeroAdmitted
    \/ PivotAggregate
    \/ EmptyResult
    \/ BeginRender
    \/ RenderOk
    \/ RenderFail
    \/ MakeZip

Spec == Init /\ [][Next]_vars

SpecNames == InitNames /\ [][Next]_vars

SpecLabels == InitLabels /\ [][Next]_vars

SpecCells == InitCells /\ [][Next]_vars

----------------------------------------------------------------------------
(* Stages reached *)

Merged == pc \in {"validate", "pivot", "main", "render", "done"} /\ loadIdx > 3

Validated == Merged /\ hasClientCol /\ pc # "validate"

Pivoted == Validated /\ pc # "pivot" /\ df_exact_3 # <<>>

Reported(kind) == \E j \in 1..Len(errors) : errors[j].kind = kind

\* tables in which client c has a row in the merged set
SourcesOf(c) ==
    {i \in Periods : \E j \in 1..Len(all_data) :
                         all_data[j].Client = c /\ all_data[j].src = i}

ClientsIn(data) == {data[j].Client : j \in 1..Len(data)}

----------------------------------------------------------------------------
(* C1 *)

\* C1: every client kept by the completeness filter has exactly one record
\* from each of the three period sources.
C1_AdmittedOnePerSource ==
    Validated =>
        \A c \in ClientsIn(df_exact_3) : \A i \in Periods :
            Cardinality({j \in 1..Len(df_exact_3) :
                            df_exact_3[j].Client = c /\ df_exact_3[j].src = i}) = 1

----------------------------------------------------------------------------
(* C2 *)

LabelsDistinct ==
    /\ \A i \in Periods : labels[i] # ""
    /\ \A i, k \in Periods : i # k => labels[i] # labels[k]

\* the clients reported are exactly the clients counted other than three times
ReportCoversExcluded ==
    {missing_details[j].Client : j \in 1..Len(missing_details)}
        = {c \in ClientsIn(all_data) : ClientCount(all_data, c) # RequiredCount}

\* C2 as stated: for every excluded client the reported missing periods are
\* all configured labels minus the labels of the sources holding the client,
\* and a client in exactly two sources is reported with exactly the one label
\* of the source it is missing from.
C2_MissingAsStated ==
    Validated =>
        /\ ReportCoversExcluded
        /\ \A j \in 1..Len(missing_details) :
             LET m == missing_details[j]
                 has == SourcesOf(m.Client)
             IN  /\ m.Missing = {labels[i] : i \in Periods} \ {labels[i] : i \in has}
                 /\ Cardinality(has) = 2 =>
                        m.Missing = {labels[i] : i \in Periods \ has}

\* C2 amended: the reported missing periods are the non-empty configured
\* labels minus the labels of the sources holding the client; when the three
\* labels are distinct and non-empty, an excluded client in exactly two
\* sources is reported with exactly the label of the missing source.
C2_MissingAmended ==
    Validated =>
        /\ ReportCoversExcluded
        /\ \A j \in 1..Len(missing_details) :
             LET m == missing_details[j]
                 has == SourcesOf(m.Client)
             IN  /\ m.Missing = ({labels[i] : i \in Periods} \ {""})
                                    \ {labels[i] : i \in has}
                 /\ (LabelsDistinct /\ Cardinality(has) = 2) =>
                        /\ Cardinality(m.Missing) = 1
                        /\ m.Missing = {labels[i] : i \in Periods \ has}

\* an excluded client held by two sources, reported with one missing label
C2_Witness ==
    /\ Validated
    /\ LabelsDistinct
    /\ \E j \in 1..Len(missing_details) :
           /\ Cardinality(SourcesOf(missing_details[j].Client)) = 2
           /\ Cardinality(missing_details[j].Missing) = 1

----------------------------------------------------------------------------
(* C3 *)

\* C3: for every invoice record and every k in 1..3, slot k holds the fee,
\* balance, days and date of that client's record from the k-th source.
C3_SlotFromKthSource ==
    Pivoted =>
        \A w \in 1..Len(df_wide) : \A k \in Periods :
            \E j \in 1..Len(all_data) :
                /\ all_data[j].Client = df_wide[w].Client
                /\ all_data[j].src = k
                /\ df_wide[w].Fee[k] = all_data[j].Fee
                /\ df_wide[w].ADB[k] = {all_data[j].ADB}
                /\ df_wide[w].Days[k] = {all_data[j].Days}
                /\ df_wide[w].Date[k] = {all_data[j].Date}

----------------------------------------------------------------------------
(* C4 *)

RECURSIVE SumFees(_, _)
SumFees(data, c) ==
    IF data = <<>> THEN 0
    ELSE (IF Head(data).Client = c THEN Head(data).Fee ELSE 0)
             + SumFees(Tail(data), c)

\* C4: the Total of every invoice record is the sum of that client's three
\* cleaned per-period fees, rounded to 2 decimals.
C4_TotalIsSumOfClientFees ==
    Pivoted =>
        \A w \in 1..Len(df_wide) :
            df_wide[w].Total = Round2(SumFees(df_exact_3, df_wide[w].Client))

----------------------------------------------------------------------------
(* C5 *)

\* the identity column is absent, or no client is counted exactly three times
FatalCondition ==
    Merged /\ (~hasClientCol \/ Exact3(all_data) = <<>>)

\* C5: a run that hits a fatal condition renders no document and builds no
\* archive, and ends with the error reported.
C5_FatalNoOutput ==
    FatalCondition =>
        /\ pc # "render"
        /\ ~zip.built
        /\ xlsx_dir = {}
        /\ generated_files = <<>>
        /\ outcome = <<>>
        /\ pc = "done" => (Reported("no_client_column") \/ Reported("zero_admitted"))

\* three loaded sources with pairwise different clients, run ended
C5_Witness ==
    /\ pc = "done"
    /\ FatalCondition
    /\ hasClientCol
    /\ \A i \in Periods : loadOk[i]
    /\ Cardinality(ClientsIn(all_data)) = 3
    /\ Reported("zero_admitted")
    /\ ~zip.built

----------------------------------------------------------------------------
(* C6 *)

RECURSIVE SuccessPaths(_)
SuccessPaths(n) ==
    IF n = 0 THEN <<>>
    ELSE IF outcome[n]
         THEN Append(SuccessPaths(n - 1), OutputPath(df_wide[n].Client))
         ELSE SuccessPaths(n - 1)

\* C6: every record is attempted whatever happened to the earlier ones, and
\* the returned list holds exactly the documents of the successful renders.
C6_FailureDoesNotStopRendering ==
    /\ pc = "render" =>
          /\ Len(outcome) = idx - 1
          /\ generated_files = SuccessPaths(idx - 1)
    /\ zip.built =>
          /\ Len(outcome) = Len(df_wide)
          /\ generated_files = SuccessPaths(Len(df_wide))
          /\ \A j \in 1..Len(generated_files) :
                 \E f \in xlsx_dir : f.path = generated_files[j]

\* a failed render followed by a successful one
C6_Witness ==
    /\ zip.built
    /\ \E j, k \in 1..Len(outcome) : j < k /\ ~outcome[j] /\ outcome[k]
    /\ Len(generated_files) < Len(df_wide)

----------------------------------------------------------------------------
(* C7 *)

\* C7: after a run in which every render succeeded, the output directory and
\* the archive hold as many documents as there are invoice records.
C7_OneDocumentPerRecord ==
    (zip.built /\ \A j \in 1..Len(outcome) : outcome[j]) =>
        /\ Cardinality(xlsx_dir) = Len(df_wide)
        /\ Cardinality(zip.members) = Len(df_wide)

----------------------------------------------------------------------------
(* C8 *)

\* rows of table i that pass the Advisor filter
KeptRows(i) ==
    SelectSeq(files[i], LAMBDA r : r.Advisor # NaN /\ r.Advisor # AdvisorHeader)

FromSource(i) == SelectSeq(all_data, LAMBDA r : r.src = i)

\* C8: a source that failed to load is reported and contributes no record;
\* every record of each loaded source is in the merged set.
C8_LoadFailureIsLocal ==
    Merged =>
        \A i \in Periods :
            IF loadOk[i]
            THEN /\ Len(FromSource(i)) = Len(KeptRows(i))
                 /\ \A j \in 1..Len(KeptRows(i)) :
                        /\ FromSource(i)[j].Client = KeptRows(i)[j].Client
                        /\ FromSource(i)[j].Advisor = KeptRows(i)[j].Advisor
                        /\ FromSource(i)[j].Date = labels[i]
            ELSE /\ FromSource(i) = <<>>
                 /\ \E j \in 1..Len(errors) :
                        errors[j].kind = "load_error" /\ errors[j].period = labels[i]

\* the second source failed, the first and third are in the merged set
C8_Witness ==
    /\ Merged
    /\ loadOk = <<TRUE, FALSE, TRUE>>
    /\ files[2] # <<>>
    /\ FromSource(1) # <<>>
    /\ FromSource(3) # <<>>
    /\ FromSource(2) = <<>>

----------------------------------------------------------------------------
(* C9 *)

\* C9: every admitted client has exactly one invoice record.
C9_OneRowPerClient ==
    Pivoted =>
        \A c \in ClientsIn(df_exact_3) :
            Cardinality({w \in 1..Len(df_wide) : df_wide[w].Client = c}) = 1

----------------------------------------------------------------------------
(* C10 *)

\* C10: after cleaning, every Fee and Average Daily Balance of the merged set
\* is non-negative.
C10_CleanedNonNegative ==
    Merged =>
        \A j \in 1..Len(all_data) : all_data[j].Fee >= 0 /\ all_data[j].ADB >= 0

====
